---- MODULE Spec2Model ----
\* Model of examples/safe/src/main.rs: option parsing, swarm construction,
\* the initial listen request, and the event loop with its one-time
\* bootstrap dial batch.  The swarm (transport, behaviours, event stream)
\* is the environment of the loop.
EXTENDS Integers, Sequences, FiniteSets, TLC

\* ---------------------------------------------------------------- bounds
MaxPeers  == 2   \* longest --peer list explored
MaxEvents == 4   \* events the swarm emits in one run
MaxQueue  == 2   \* events pending in the swarm, not yet pulled by the loop

\* ------------------------------------------------------------ vocabulary
\* Raw --peer / PEERS values, after splitting at ','.
RawAddrs == {"/ip4/10.0.0.1/tcp/1", "/ip4/10.0.0.2/tcp/2", "not-a-multiaddr"}

Sources == {"swarm", "autonat", "identify"}

\* Event variants each source can emit (KeepAlive's event type is Void).
KindsOf(src) ==
  CASE src = "swarm"    -> {"NewListenAddr", "ConnectionEstablished", "ListenerError"}
    [] src = "autonat"  -> {"AutoNatInboundProbeRequest", "AutoNatStatusChanged"}
    [] src = "identify" -> {"IdentifyReceived", "IdentifyError"}

VARIABLES
  args,         \* raw peer arguments given to the process
  peers,        \* opt.peers
  pc,           \* "parse" | "setup" | "listen" | "await" | "dialing" | "exited"
  exit,         \* "none" | "usage" | "crypto" | "listen" | "event"
  listening,    \* result of swarm.listen_on: "none" | "ok" | "err"
  listens,      \* number of listen_on calls made
  bootstrapped, \* the flag of main
  i,            \* position of the for loop over opt.peers (1-based)
  dialed,       \* swarm.dial calls made, with their results
  errLog,       \* addresses logged by log::error!
  lastLog,      \* last info/error line written
  queue,        \* events pending in the swarm, in arrival order
  produced,     \* events emitted so far, per source
  sourceUp,     \* FALSE once the transport has shut down
  lastSeq,      \* per source: sequence number of the last event handled
  nlaHandled,   \* NewListenAddr events handled so far
  batches,      \* dial batches started so far
  lastKind      \* variant of the last event handled ("none" before the first)

vars == <<args, peers, pc, exit, listening, listens, bootstrapped, i, dialed,
          errLog, lastLog, queue, produced, sourceUp, lastSeq, nlaHandled,
          batches, lastKind>>

envVars  == <<queue, produced, sourceUp>>
dialVars == <<dialed, errLog>>

\* ------------------------------------------------------------- helpers
RECURSIVE SeqsUpTo(_, _)
SeqsUpTo(S, n) ==
  IF n = 0 THEN {<<>>}
  ELSE LET shorter == SeqsUpTo(S, n - 1)
       IN  shorter \cup {Append(s, x) : s \in {t \in shorter : Len(t) = n - 1}, x \in S}

RECURSIVE SumOver(_, _)
SumOver(f, S) ==
  IF S = {} THEN 0
  ELSE LET x == CHOOSE y \in S : TRUE IN f[x] + SumOver(f, S \ {x})

Produced == SumOver(produced, Sources)
Handled  == SumOver(lastSeq, Sources)

\* Multiaddr::from_str on one raw value.
ParseMultiaddr(s) ==
  CASE s = "/ip4/10.0.0.1/tcp/1" -> [ok |-> TRUE,  addr |-> 1]
    [] s = "/ip4/10.0.0.2/tcp/2" -> [ok |-> TRUE,  addr |-> 2]
    [] OTHER                     -> [ok |-> FALSE, addr |-> 0]

Malformed(s) == ~ParseMultiaddr(s).ok

\* Opt::parse drops the values it cannot parse (mutant).
Opt_parse_lenient(raw) ==
  LET good == SelectSeq(raw, LAMBDA s : ParseMultiaddr(s).ok)
  IN  [ok |-> TRUE, peers |-> [k \in 1..Len(good) |-> ParseMultiaddr(good[k]).addr]]

\* Opt::parse: every value must parse, otherwise clap reports the error and
\* the process exits.
Opt_parse(raw) ==
  IF \E k \in 1..Len(raw) : ~ParseMultiaddr(raw[k]).ok
  THEN [ok |-> FALSE, peers |-> <<>>]
  ELSE [ok |-> TRUE,  peers |-> [k \in 1..Len(raw) |-> ParseMultiaddr(raw[k]).addr]]

\* ---------------------------------------------------------------- Init
Init ==
  /\ args \in SeqsUpTo(RawAddrs, MaxPeers)
  /\ peers = <<>>
  /\ pc = "parse"
  /\ exit = "none"
  /\ listening = "none"
  /\ listens = 0
  /\ bootstrapped = FALSE
  /\ i = 0
  /\ dialed = <<>>
  /\ errLog = <<>>
  /\ lastLog = "main"
  /\ queue = <<>>
  /\ produced = [s \in Sources |-> 0]
  /\ sourceUp = TRUE
  /\ lastSeq = [s \in Sources |-> 0]
  /\ nlaHandled = 0
  /\ batches = 0
  /\ lastKind = "none"

\* ------------------------------------------------------------- startup
Parse ==
  /\ pc = "parse"
  /\ LET o == Opt_parse(args)
     IN  IF o.ok
         THEN /\ peers' = o.peers
              /\ pc' = "setup"
              /\ lastLog' = "opts"
              /\ exit' = exit
         ELSE /\ pc' = "exited"
              /\ exit' = "usage"
              /\ UNCHANGED <<peers, lastLog>>
  /\ UNCHANGED <<args, listening, listens, bootstrapped, i, dialVars, envVars,
                 lastSeq, nlaHandled, batches, lastKind>>

\* Key generation and swarm construction; noise::Config::new(..)? may fail.
BuildSwarm ==
  /\ pc = "setup"
  /\ \E ok \in BOOLEAN :
       IF ok THEN pc' = "listen" /\ exit' = exit
             ELSE pc' = "exited" /\ exit' = "crypto"
  /\ UNCHANGED <<args, peers, listening, listens, bootstrapped, i, dialVars,
                 lastLog, envVars, lastSeq, nlaHandled, batches, lastKind>>

\* The result of listen_on is dropped instead of propagated (mutant).
Listen_ignore_err ==
  /\ pc = "listen"
  /\ listens' = listens + 1
  /\ \E ok \in BOOLEAN : listening' = IF ok THEN "ok" ELSE "err"
  /\ pc' = "await"
  /\ bootstrapped' = FALSE
  /\ UNCHANGED <<args, peers, exit, i, dialVars, lastLog, envVars, lastSeq,
                 nlaHandled, batches, lastKind>>

\* swarm.listen_on(listen_addr)?; let mut bootstrapped = false;
Listen ==
  /\ pc = "listen"
  /\ listens' = listens + 1
  /\ \E ok \in BOOLEAN :
       IF ok
       THEN /\ listening' = "ok"
            /\ pc' = "await"
            /\ bootstrapped' = FALSE
            /\ exit' = exit
       ELSE /\ listening' = "err"
            /\ pc' = "exited"
            /\ exit' = "listen"
            /\ UNCHANGED bootstrapped
  /\ UNCHANGED <<args, peers, i, dialVars, lastLog, envVars, lastSeq,
                 nlaHandled, batches, lastKind>>

\* ----------------------------------------------------------- environment
\* A behaviour or the transport emits an event; the producer blocks while
\* the pending queue is full.
Produce ==
  /\ listening = "ok"
  /\ pc \in {"await", "dialing"}
  /\ sourceUp
  /\ Len(queue) < MaxQueue
  /\ Produced < MaxEvents
  /\ \E src \in Sources : \E k \in KindsOf(src) :
       /\ queue' = Append(queue, [src |-> src, kind |-> k, seq |-> produced[src] + 1])
       /\ produced' = [produced EXCEPT ![src] = @ + 1]
  /\ UNCHANGED <<args, peers, pc, exit, listening, listens, bootstrapped, i,
                 dialVars, lastLog, sourceUp, lastSeq, nlaHandled, batches, lastKind>>

\* The transport shuts down: nothing is emitted any more.
TransportShutdown ==
  /\ listening = "ok"
  /\ pc \in {"await", "dialing"}
  /\ sourceUp
  /\ sourceUp' = FALSE
  /\ UNCHANGED <<args, peers, pc, exit, listening, listens, bootstrapped, i,
                 dialVars, lastLog, queue, produced, lastSeq, nlaHandled,
                 batches, lastKind>>

\* ------------------------------------------------------------ event loop
\* The most recently arrived event is pulled first (mutant).
NextEvent_lifo(q) ==
  [event |-> q[Len(q)], rest |-> SubSeq(q, 1, Len(q) - 1)]

\* swarm.select_next_some().await, when an event is pending: the oldest
\* pending event is handed to the loop and leaves the swarm.
NextEvent(q) ==
  [event |-> Head(q), rest |-> Tail(q)]

\* Identify::Received is reported to main as a new listen address (mutant).
handle_event_identify_nla(event) ==
  CASE event.kind \in {"NewListenAddr", "IdentifyReceived"}
         -> [ok |-> TRUE, node |-> "NewListenAddr", log |-> "none"]
    [] event.kind = "AutoNatInboundProbeRequest"
         -> [ok |-> TRUE, node |-> "None", log |-> "autonat"]
    [] OTHER
         -> [ok |-> TRUE, node |-> "None", log |-> "none"]

\* The catch-all arm reports a new listen address (mutant).
handle_event_rest_nla(event) ==
  CASE event.kind = "NewListenAddr"
         -> [ok |-> TRUE, node |-> "NewListenAddr", log |-> "none"]
    [] event.kind = "IdentifyReceived"
         -> [ok |-> TRUE, node |-> "None", log |-> "identify"]
    [] event.kind = "AutoNatInboundProbeRequest"
         -> [ok |-> TRUE, node |-> "None", log |-> "autonat"]
    [] OTHER
         -> [ok |-> TRUE, node |-> "NewListenAddr", log |-> "none"]

\* A listener error is returned as Err (mutant).
handle_event_listener_err(event) ==
  CASE event.kind = "NewListenAddr"
         -> [ok |-> TRUE, node |-> "NewListenAddr", log |-> "none"]
    [] event.kind = "IdentifyReceived"
         -> [ok |-> TRUE, node |-> "None", log |-> "identify"]
    [] event.kind = "AutoNatInboundProbeRequest"
         -> [ok |-> TRUE, node |-> "None", log |-> "autonat"]
    [] event.kind = "ListenerError"
         -> [ok |-> FALSE, node |-> "None", log |-> "none"]
    [] OTHER
         -> [ok |-> TRUE, node |-> "None", log |-> "none"]

\* handle_event: the Result it returns (ok), the NodeEvent inside it (node)
\* and the info line it writes (log).
handle_event(event) ==
  CASE event.kind = "NewListenAddr"
         -> [ok |-> TRUE, node |-> "NewListenAddr", log |-> "none"]
    [] event.kind = "IdentifyReceived"
         -> [ok |-> TRUE, node |-> "None", log |-> "identify"]
    [] event.kind = "AutoNatInboundProbeRequest"
         -> [ok |-> TRUE, node |-> "None", log |-> "autonat"]
    [] OTHER
         -> [ok |-> TRUE, node |-> "None", log |-> "none"]

\* The flag is never taken as set (mutant).
AlreadyBootstrapped_never(flag) == FALSE

\* The test of the flag is inverted (mutant).
AlreadyBootstrapped_inverted(flag) == ~flag

\* if bootstrapped { continue; }
AlreadyBootstrapped(flag) == flag

\* A listener error makes the loop ask for a new listener (mutant).
HandleEvent_relisten ==
  /\ pc = "await"
  /\ queue # <<>>
  /\ LET nx == NextEvent(queue)
         r  == handle_event(nx.event)
     IN  /\ queue' = nx.rest
         /\ lastSeq' = [lastSeq EXCEPT ![nx.event.src] = nx.event.seq]
         /\ nlaHandled' = IF nx.event.kind = "NewListenAddr"
                          THEN nlaHandled + 1 ELSE nlaHandled
         /\ lastKind' = nx.event.kind
         /\ lastLog' = IF r.log # "none" THEN r.log ELSE lastLog
         /\ listens' = IF nx.event.kind = "ListenerError" THEN listens + 1 ELSE listens
         /\ exit' = exit
         /\ IF r.node = "NewListenAddr" /\ ~AlreadyBootstrapped(bootstrapped)
            THEN /\ bootstrapped' = TRUE
                 /\ pc' = "dialing"
                 /\ i' = 1
                 /\ batches' = batches + 1
            ELSE /\ pc' = "await"
                 /\ UNCHANGED <<bootstrapped, i, batches>>
  /\ UNCHANGED <<args, peers, listening, dialVars, produced, sourceUp>>

\* One iteration of the loop, from the event pulled out of the swarm to
\* either the next await or the start of the for loop over opt.peers.
HandleEvent ==
  /\ pc = "await"
  /\ queue # <<>>
  /\ LET nx == NextEvent(queue)
         r  == handle_event(nx.event)
     IN  /\ queue' = nx.rest
         /\ lastSeq' = [lastSeq EXCEPT ![nx.event.src] = nx.event.seq]
         /\ nlaHandled' = IF nx.event.kind = "NewListenAddr"
                          THEN nlaHandled + 1 ELSE nlaHandled
         /\ lastKind' = nx.event.kind
         /\ lastLog' = IF r.log # "none" THEN r.log ELSE lastLog
         /\ IF ~r.ok
            THEN /\ pc' = "exited"
                 /\ exit' = "event"
                 /\ UNCHANGED <<bootstrapped, i, batches>>
            ELSE /\ exit' = exit
                 /\ IF r.node = "NewListenAddr" /\ ~AlreadyBootstrapped(bootstrapped)
                    THEN /\ bootstrapped' = TRUE
                         /\ pc' = "dialing"
                         /\ i' = 1
                         /\ batches' = batches + 1
                    ELSE /\ pc' = "await"
                         /\ UNCHANGED <<bootstrapped, i, batches>>
  /\ UNCHANGED <<args, peers, listening, listens, dialVars, produced, sourceUp>>

\* The loop leaves when the event source has ended (mutant).
AwaitPending_stop ==
  /\ pc = "await"
  /\ queue = <<>>
  /\ IF sourceUp
     THEN UNCHANGED <<pc, exit>>
     ELSE pc' = "exited" /\ exit' = "none"
  /\ UNCHANGED <<args, peers, listening, listens, bootstrapped, i, dialVars,
                 lastLog, envVars, lastSeq, nlaHandled, batches, lastKind>>

\* swarm.select_next_some().await, when nothing is pending: the loop stays
\* suspended, whether or not the source will ever emit again.
AwaitPending ==
  /\ pc = "await"
  /\ queue = <<>>
  /\ UNCHANGED vars

\* A failed dial ends the batch (mutant).
DialNext_failfast ==
  /\ pc = "dialing"
  /\ i <= Len(peers)
  /\ \E ok \in BOOLEAN :
       /\ dialed' = Append(dialed, [addr |-> peers[i], ok |-> ok])
       /\ errLog' = IF ok THEN errLog ELSE Append(errLog, peers[i])
       /\ lastLog' = IF ok THEN "dialing" ELSE "dial_error"
       /\ i' = IF ok THEN i + 1 ELSE Len(peers) + 1
  /\ UNCHANGED <<args, peers, pc, exit, listening, listens, bootstrapped,
                 envVars, lastSeq, nlaHandled, batches, lastKind>>

\* The swarm is polled between two dials, and a pending event is taken out
\* of it (mutant).
DialNext_yield ==
  /\ pc = "dialing"
  /\ i <= Len(peers)
  /\ \E ok \in BOOLEAN :
       /\ dialed' = Append(dialed, [addr |-> peers[i], ok |-> ok])
       /\ errLog' = IF ok THEN errLog ELSE Append(errLog, peers[i])
       /\ lastLog' = IF ok THEN "dialing" ELSE "dial_error"
  /\ i' = i + 1
  /\ IF queue = <<>>
     THEN UNCHANGED <<queue, lastSeq, lastKind>>
     ELSE /\ queue' = Tail(queue)
          /\ lastSeq' = [lastSeq EXCEPT ![Head(queue).src] = Head(queue).seq]
          /\ lastKind' = Head(queue).kind
  /\ UNCHANGED <<args, peers, pc, exit, listening, listens, bootstrapped,
                 produced, sourceUp, nlaHandled, batches>>

\* A failed dial is tried again (mutant).
DialNext_retry ==
  /\ pc = "dialing"
  /\ i <= Len(peers)
  /\ \E ok \in BOOLEAN :
       /\ dialed' = Append(dialed, [addr |-> peers[i], ok |-> ok])
       /\ errLog' = IF ok THEN errLog ELSE Append(errLog, peers[i])
       /\ lastLog' = IF ok THEN "dialing" ELSE "dial_error"
       /\ i' = IF ok THEN i + 1 ELSE i
  /\ UNCHANGED <<args, peers, pc, exit, listening, listens, bootstrapped,
                 envVars, lastSeq, nlaHandled, batches, lastKind>>

\* An address already dialed in this batch is skipped (mutant).
DialNext_dedup ==
  /\ pc = "dialing"
  /\ i <= Len(peers)
  /\ IF \E k \in 1..Len(dialed) : dialed[k].addr = peers[i]
     THEN UNCHANGED <<dialed, errLog, lastLog>>
     ELSE \E ok \in BOOLEAN :
            /\ dialed' = Append(dialed, [addr |-> peers[i], ok |-> ok])
            /\ errLog' = IF ok THEN errLog ELSE Append(errLog, peers[i])
            /\ lastLog' = IF ok THEN "dialing" ELSE "dial_error"
  /\ i' = i + 1
  /\ UNCHANGED <<args, peers, pc, exit, listening, listens, bootstrapped,
                 envVars, lastSeq, nlaHandled, batches, lastKind>>

\* One iteration of  for multiaddr in &opt.peers : the dial and, when it
\* returns Err, the error line.
DialNext ==
  /\ pc = "dialing"
  /\ i <= Len(peers)
  /\ \E ok \in BOOLEAN :
       /\ dialed' = Append(dialed, [addr |-> peers[i], ok |-> ok])
       /\ errLog' = IF ok THEN errLog ELSE Append(errLog, peers[i])
       /\ lastLog' = IF ok THEN "dialing" ELSE "dial_error"
  /\ i' = i + 1
  /\ UNCHANGED <<args, peers, pc, exit, listening, listens, bootstrapped,
                 envVars, lastSeq, nlaHandled, batches, lastKind>>

\* The flag is cleared when no dial of the batch succeeded (mutant).
DialDone_retry ==
  /\ pc = "dialing"
  /\ i > Len(peers)
  /\ pc' = "await"
  /\ i' = 0
  /\ bootstrapped' = (\E k \in 1..Len(dialed) : dialed[k].ok)
  /\ UNCHANGED <<args, peers, exit, listening, listens, dialVars, lastLog,
                 envVars, lastSeq, nlaHandled, batches, lastKind>>

\* The flag is kept only when there was something to dial (mutant).
DialDone_empty_reset ==
  /\ pc = "dialing"
  /\ i > Len(peers)
  /\ pc' = "await"
  /\ i' = 0
  /\ bootstrapped' = (Len(peers) > 0)
  /\ UNCHANGED <<args, peers, exit, listening, listens, dialVars, lastLog,
                 envVars, lastSeq, nlaHandled, batches, lastKind>>

\* The for loop may end one entry early (mutant).
DialDone_short ==
  /\ pc = "dialing"
  /\ i >= Len(peers)
  /\ pc' = "await"
  /\ i' = 0
  /\ UNCHANGED <<args, peers, exit, listening, listens, bootstrapped, dialVars,
                 lastLog, envVars, lastSeq, nlaHandled, batches, lastKind>>

\* The for loop is exhausted: back to the top of the loop.
DialDone ==
  /\ pc = "dialing"
  /\ i > Len(peers)
  /\ pc' = "await"
  /\ i' = 0
  /\ UNCHANGED <<args, peers, exit, listening, listens, bootstrapped, dialVars,
                 lastLog, envVars, lastSeq, nlaHandled, batches, lastKind>>

Next ==
  \/ Parse
  \/ BuildSwarm
  \/ Listen
  \/ Produce
  \/ TransportShutdown
  \/ HandleEvent
  \/ AwaitPending
  \/ DialNext
  \/ DialDone

Spec == Init /\ [][Next]_vars

\* The loop is one task of the executor: a step of it that stays possible
\* is eventually taken.  Nothing is assumed of the swarm.
FairSpec ==
  /\ Spec
  /\ WF_vars(HandleEvent)
  /\ WF_vars(DialNext)
  /\ WF_vars(DialDone)

TypeOK ==
  /\ args \in SeqsUpTo(RawAddrs, MaxPeers)
  /\ pc \in {"parse", "setup", "listen", "await", "dialing", "exited"}
  /\ exit \in {"none", "usage", "crypto", "listen", "event"}
  /\ listening \in {"none", "ok", "err"}
  /\ bootstrapped \in BOOLEAN
  /\ i \in 0..(Len(peers) + 1)
  /\ Len(queue) <= MaxQueue
  /\ sourceUp \in BOOLEAN

\* --------------------------------------------------------------- claims
FailedAddrs(d) ==
  LET failed == SelectSeq(d, LAMBDA x : ~x.ok)
  IN  [k \in 1..Len(failed) |-> failed[k].addr]

AllFailed(d) == \A k \in 1..Len(d) : ~d[k].ok

HasMalformed(raw) == \E k \in 1..Len(raw) : Malformed(raw[k])

\* C1: however many NewListenAddr events are handled, exactly one dial
\* batch is started over the run (none before the first such event), and
\* once the loop is back at its await the batch holds one dial per entry of
\* opt.peers; later NewListenAddr events add no dial.
C1_OneBatch ==
  /\ batches = (IF nlaHandled = 0 THEN 0 ELSE 1)
  /\ Len(dialed) <= Len(peers)
  /\ (nlaHandled >= 1 /\ pc = "await") => Len(dialed) = Len(peers)

C1_Witness ==
  /\ nlaHandled = 3
  /\ lastSeq["identify"] = 1
  /\ pc = "await"
  /\ Len(peers) = 2
  /\ Len(dialed) = 2
  /\ batches = 1

\* C2: a dial that returns Err is only logged: the for loop goes on to the
\* next address (the k-th dial is always of the k-th peer), the loop is not
\* left, every peer has been dialed once the loop is back at its await,
\* the error log holds exactly the failed addresses, and the next pending
\* event can be handled.
C2_DialFailureIsolated ==
  /\ \A k \in 1..Len(dialed) : k <= Len(peers) /\ dialed[k].addr = peers[k]
  /\ pc = "dialing" => Len(dialed) = i - 1
  /\ (bootstrapped /\ pc = "await") => Len(dialed) = Len(peers)
  /\ errLog = FailedAddrs(dialed)
  /\ errLog # <<>> => pc \in {"dialing", "await"} /\ exit = "none"
  /\ (errLog # <<>> /\ pc = "await" /\ queue # <<>>) => ENABLED HandleEvent

C2_Witness ==
  /\ Len(peers) = 2
  /\ Len(dialed) = 2
  /\ AllFailed(dialed)
  /\ Len(errLog) = 2
  /\ pc = "await"
  /\ lastKind = "IdentifyReceived"
  /\ lastLog = "identify"

\* C3: as long as no NewListenAddr event has been handled, no dial has been
\* issued and no batch started, whatever other events have been handled.
C3_NoDialBeforeListenAddr ==
  nlaHandled = 0 => dialed = <<>> /\ errLog = <<>> /\ pc # "dialing" /\ ~bootstrapped

C3_Witness ==
  /\ nlaHandled = 0
  /\ lastSeq["swarm"] >= 1
  /\ lastSeq["autonat"] >= 1
  /\ lastSeq["identify"] >= 1
  /\ Len(peers) >= 1
  /\ dialed = <<>>
  /\ pc = "await"

\* C4: when listen_on fails the process has exited with that error: the
\* loop was never entered, no event was handled, the flag is unset and no
\* dial was issued.
C4_ListenFailureIsFatal ==
  listening = "err" =>
    /\ pc = "exited"
    /\ exit = "listen"
    /\ Handled = 0
    /\ lastKind = "none"
    /\ ~bootstrapped
    /\ batches = 0
    /\ dialed = <<>>

C4_Witness ==
  /\ listening = "err"
  /\ pc = "exited"
  /\ exit = "listen"
  /\ Len(peers) >= 1
  /\ listens = 1

\* C5: the flag is unset until the first NewListenAddr event is handled,
\* is set by the step that handles it, and no step ever clears it.
C5_FlagMonotone ==
  /\ [](bootstrapped <=> nlaHandled >= 1)
  /\ [][ /\ bootstrapped => bootstrapped'
         /\ (~bootstrapped /\ bootstrapped') =>
              (nlaHandled = 0 /\ nlaHandled' = 1 /\ batches' = 1) ]_vars

C5_Witness ==
  /\ bootstrapped
  /\ nlaHandled >= 2
  /\ Len(peers) >= 1
  /\ Len(dialed) = Len(peers)
  /\ AllFailed(dialed)
  /\ pc = "await"

\* A step of the loop that handles an event other than NewListenAddr.
HandlesOtherEvent ==
  /\ pc = "await"
  /\ queue # <<>>
  /\ lastSeq' # lastSeq
  /\ lastKind' # "NewListenAddr"

\* C6: handling an event other than NewListenAddr leaves the flag, the
\* dials, the error log and the listen requests as they were and returns
\* to the await, whether or not the flag is set.
C6_OtherEventsFrame ==
  [][ HandlesOtherEvent =>
        /\ UNCHANGED <<bootstrapped, dialed, errLog, listens, batches, i, peers>>
        /\ pc' = "await"
        /\ exit' = exit ]_vars

C6_Witness ==
  /\ lastKind = "IdentifyReceived"
  /\ lastLog = "identify"
  /\ lastSeq["autonat"] >= 1
  /\ bootstrapped
  /\ Len(peers) >= 1
  /\ Len(dialed) = Len(peers)
  /\ pc = "await"

SetupExits == {"usage", "crypto", "listen"}

\* C7: the process exits only before the loop, with a setup error; once in
\* the loop no step leaves it, whatever event variant is handled and
\* whatever the dials return, and a started batch can always go on.
C7_LoopNeverHalts ==
  /\ [](pc = "exited" => exit \in SetupExits /\ Handled = 0 /\ dialed = <<>>)
  /\ [](pc = "dialing" => ENABLED (DialNext \/ DialDone))
  /\ [][ (pc \in {"await", "dialing"}) => (pc' \in {"await", "dialing"}) ]_vars

C7_Witness ==
  /\ lastKind = "ListenerError"
  /\ lastSeq["identify"] >= 1
  /\ errLog # <<>>
  /\ pc = "await"
  /\ exit = "none"

\* C8 as claimed: malformed entries in the configured list do not abort the
\* process, and every well-formed entry is dialed after the first
\* NewListenAddr event.
C8_Original ==
  (HasMalformed(args) /\ \E k \in 1..Len(args) : ~Malformed(args[k])) =>
    /\ exit # "usage"
    /\ (nlaHandled >= 1 /\ pc = "await") =>
         \A k \in 1..Len(args) :
           ~Malformed(args[k]) =>
             \E j \in 1..Len(dialed) : dialed[j].addr = ParseMultiaddr(args[k]).addr

\* C8, amended: a list with a malformed entry is rejected by option parsing:
\* the process exits before the swarm is built, nothing is listened on or
\* dialed.  A list of well-formed entries is dialed entry by entry, and
\* each entry whose dial returns Err is logged on its own.
C8_MalformedRejectedAtParse ==
  /\ HasMalformed(args) =>
       /\ pc \in {"parse", "exited"}
       /\ pc = "exited" => exit = "usage"
       /\ peers = <<>>
       /\ listens = 0
       /\ dialed = <<>>
       /\ errLog = <<>>
  /\ (~HasMalformed(args) /\ nlaHandled >= 1 /\ pc = "await") =>
       /\ Len(dialed) = Len(args)
       /\ \A k \in 1..Len(args) : dialed[k].addr = ParseMultiaddr(args[k]).addr
       /\ errLog = FailedAddrs(dialed)

C8_Witness ==
  /\ Len(args) = 2
  /\ ~Malformed(args[1])
  /\ Malformed(args[2])
  /\ pc = "exited"
  /\ exit = "usage"

\* The event source has ended and everything it delivered has been handled.
StreamEnded == listening = "ok" /\ ~sourceUp /\ queue = <<>>

\* C9 as claimed: once the event stream has ended the loop stops and the
\* process exits: it has exited, or it can still take a step.
C9_Original ==
  (StreamEnded /\ pc = "await") => (pc = "exited" \/ ENABLED <<Next>>_vars)

\* C9, amended: the loop has no exit.  While an event is pending the loop
\* can handle it; once the source has ended and the pending events are
\* handled, the loop stays suspended at its await for ever and the process
\* does not exit.
C9_LoopWaitsForever ==
  /\ (pc = "await" /\ queue # <<>>) => ENABLED HandleEvent
  /\ (StreamEnded /\ pc # "dialing") =>
       /\ pc = "await"
       /\ exit = "none"
       /\ ~ENABLED <<Next>>_vars

C9_Witness ==
  /\ StreamEnded
  /\ pc = "await"
  /\ Handled >= 2
  /\ bootstrapped

\* C10: events are handled one at a time, oldest pending event first, and
\* the events of one source are handled in the order the source emitted
\* them, none skipped.
C10_PerSourceOrder ==
  /\ [](\A s \in Sources : lastSeq[s] <= produced[s])
  /\ [](\A k \in 1..Len(queue) : queue[k].seq > lastSeq[queue[k].src])
  /\ [][ lastSeq' # lastSeq =>
           /\ queue # <<>>
           /\ queue' = Tail(queue)
           /\ lastKind' = Head(queue).kind
           /\ \A s \in Sources :
                lastSeq'[s] = IF s = Head(queue).src THEN lastSeq[s] + 1 ELSE lastSeq[s]
           /\ lastSeq'[Head(queue).src] = Head(queue).seq ]_vars

C10_Witness ==
  /\ lastSeq["autonat"] = 2
  /\ lastSeq["identify"] = 1
  /\ lastSeq["swarm"] = 1
  /\ lastKind = "AutoNatStatusChanged"

\* C11: the commands given to the swarm are one listen request, made
\* before any event is handled, and the dials of the single batch: every
\* other step leaves the listen requests and the dials as they were.
C11_OnlyListenAndBatch ==
  /\ [](listens <= 1)
  /\ []((pc \in {"await", "dialing"} \/ Handled >= 1) => listens = 1)
  /\ [][ listens' # listens =>
           (pc = "listen" /\ Handled = 0 /\ dialed = <<>> /\ listens' = 1) ]_vars
  /\ [][ dialed' # dialed =>
           /\ pc = "dialing" /\ pc' = "dialing"
           /\ batches = 1
           /\ i <= Len(peers)
           /\ dialed' = Append(dialed, [addr |-> peers[i], ok |-> dialed'[i].ok]) ]_vars

C11_Witness ==
  /\ listens = 1
  /\ lastKind = "ListenerError"
  /\ nlaHandled = 2
  /\ Len(peers) = 2
  /\ Len(dialed) = 2
  /\ pc = "await"

\* C12: events leave the swarm only while the loop is at its await.  From
\* the step that finds the flag unset to the end of the for loop no event
\* is handled and the flag stays set, while the swarm goes on emitting; the
\* steps of the swarm never touch the flag, the for loop or the dials.
C12_BatchIsOneStep ==
  /\ [](pc = "dialing" => bootstrapped /\ batches = 1)
  /\ [][ (lastSeq' # lastSeq \/ lastKind' # lastKind \/ nlaHandled' # nlaHandled) =>
           (pc = "await" /\ queue # <<>> /\ queue' = Tail(queue)) ]_vars
  /\ [][ pc = "dialing" =>
           /\ bootstrapped'
           /\ UNCHANGED <<lastSeq, lastKind, nlaHandled, batches>>
           /\ (queue' = queue \/ (Len(queue') = Len(queue) + 1 /\
                                  SubSeq(queue', 1, Len(queue)) = queue)) ]_vars
  /\ [][ (Len(queue') > Len(queue) \/ sourceUp' # sourceUp) =>
           UNCHANGED <<bootstrapped, pc, i, dialed, errLog, batches>> ]_vars

C12_Witness ==
  /\ pc = "dialing"
  /\ Len(peers) = 2
  /\ Len(dialed) = 1
  /\ Len(queue) = 2
  /\ queue[1].kind = "NewListenAddr"
  /\ queue[2].kind = "IdentifyReceived"
  /\ bootstrapped

\* C13: the flag is set before the first dial and stays set whatever the
\* dials return; each entry of opt.peers is dialed once, failed or not, and
\* a NewListenAddr event handled after a batch of failed dials adds none.
C13_NoRetry ==
  /\ []((dialed # <<>> \/ pc = "dialing") => bootstrapped)
  /\ [](Len(dialed) <= Len(peers))
  /\ [](pc = "dialing" => Len(dialed) = i - 1)
  /\ [][ dialed' # dialed => (bootstrapped /\ bootstrapped') ]_vars
  /\ [][ (bootstrapped /\ pc = "await") =>
           (dialed' = dialed /\ errLog' = errLog /\ pc' = "await" /\ bootstrapped') ]_vars

C13_Witness ==
  /\ Len(peers) = 2
  /\ Len(dialed) = 2
  /\ AllFailed(dialed)
  /\ nlaHandled = 3
  /\ lastKind = "NewListenAddr"
  /\ bootstrapped
  /\ pc = "await"

DialedAddrs == [k \in 1..Len(dialed) |-> dialed[k].addr]

ParsedArgs == [k \in 1..Len(args) |-> ParseMultiaddr(args[k]).addr]

\* C14: the addresses dialed are, in order, a prefix of opt.peers, and the
\* whole of it once the batch is over, an entry listed twice being dialed
\* twice; opt.peers is what option parsing made of the arguments and is
\* never changed afterwards.
C14_DialsAreThePeerList ==
  /\ [](Len(dialed) <= Len(peers) /\ DialedAddrs = SubSeq(peers, 1, Len(dialed)))
  /\ []((bootstrapped /\ pc = "await") => DialedAddrs = peers)
  /\ [](pc \in {"await", "dialing"} => peers = ParsedArgs)
  /\ [][ pc # "parse" => peers' = peers ]_vars

C14_Witness ==
  /\ peers = <<2, 2>>
  /\ DialedAddrs = <<2, 2>>
  /\ dialed[1].ok
  /\ ~dialed[2].ok
  /\ pc = "await"

\* C15: with no peer configured the first NewListenAddr event still sets
\* the flag, through a batch of no dial, and no dial is ever issued.
C15_EmptyPeerList ==
  args = <<>> =>
    /\ peers = <<>>
    /\ dialed = <<>>
    /\ errLog = <<>>
    /\ bootstrapped <=> nlaHandled >= 1
    /\ batches = (IF nlaHandled >= 1 THEN 1 ELSE 0)

C15_Witness ==
  /\ args = <<>>
  /\ nlaHandled = 2
  /\ lastSeq["identify"] >= 1
  /\ bootstrapped
  /\ dialed = <<>>
  /\ pc = "await"

\* C16: whenever the loop is at its await, no dial has been issued if the
\* flag is unset and one per entry of opt.peers if it is set; the number
\* of dials never exceeds the length of opt.peers.
C16_DialCountAtAwait ==
  /\ Len(dialed) <= Len(peers)
  /\ pc = "await" => Len(dialed) = (IF bootstrapped THEN Len(peers) ELSE 0)

C16_Witness ==
  /\ pc = "await"
  /\ bootstrapped
  /\ Len(peers) = 2
  /\ Len(dialed) = 2
  /\ Handled = 4
  /\ ~sourceUp

\* A NewListenAddr event is pending in the swarm.
ListenAddrPending ==
  listening = "ok" /\ \E k \in 1..Len(queue) : queue[k].kind = "NewListenAddr"

\* C17: once listening, a NewListenAddr event delivered by the swarm leads
\* to the flag being set and every entry of opt.peers having been dialed,
\* whatever events are pending before it.
C17_EventuallyBootstrapped ==
  ListenAddrPending ~> (bootstrapped /\ pc = "await" /\ DialedAddrs = peers)

C17_Witness ==
  /\ bootstrapped
  /\ pc = "await"
  /\ Len(peers) = 2
  /\ DialedAddrs = peers
  /\ nlaHandled = 1
  /\ lastSeq["swarm"] = 3
  /\ lastSeq["identify"] = 1

====
